---- MODULE Spec2Model ----
(***************************************************************************)
(* DocumentInsightAi: the in-memory store (server/storage.ts), the text    *)
(* extraction (server/utils/fileProcessing.ts), the completion client      *)
(* (server/utils/groqApi.ts) and the HTTP handlers of registerRoutes.      *)
(*                                                                         *)
(* Scheduling.  Node.js runs one callback of the event loop at a time and  *)
(* drains the microtask queue before it takes the next callback.  Every    *)
(* method of MemStorage is an async function without an await inside: its  *)
(* body runs synchronously at the call, and the caller's `await` resumes   *)
(* in a microtask of the same callback.  processFile (fs) and the axios    *)
(* call of groqChatCompletion complete in a later callback of their own.   *)
(* Handlers therefore interleave at their awaits only with handlers that   *)
(* were dispatched by the same callback (requests pipelined on one         *)
(* connection), and a handler resumed by the completion of its I/O runs    *)
(* alone until it finishes or starts the next I/O.                         *)
(***************************************************************************)
EXTENDS Integers, Sequences, FiniteSets, TLC

\* ------------------------------------------------------------------ bounds
MaxReqs == 2
MaxClock == 1
MaxDocuments == 2
MaxSessions == 2
MaxMessages == 5
MaxUsers == 2
MaxStoreCalls == 4
MaxPosts == 3

\* --------------------------------------------------------------- constants
FileSizeLimit == 10485760

VARIABLES
    users, documents, sessions, messages,
    userIdCounter, documentIdCounter, sessionIdCounter, messageIdCounter,
    now,        \* the wall clock read by `new Date()`
    apiKey,     \* GROQ_API_KEY is set (read once, at module load)
    clientFile, \* the file the clients of this run upload ({}: a form without file)
    slots,      \* how many requests can be in flight together in this run
    horizon,    \* the latest time the clock reaches in this run
    reqs,       \* one record per HTTP request: its handler's position and locals
    running,    \* the handlers with a continuation in the current callback
    phase,      \* "sync": the callback is still dispatching; "micro": it drains microtasks
    assigned,   \* history: per entity kind, the ids handed out so far, in order
    calls,      \* number of direct store calls made (SpecStore)
    sidebar,    \* the browser's Sidebar: its props, its sessions query, the location
    chatPage    \* the browser's chat page: ChatInterface's state and the chat mutation

storeVars == <<users, documents, sessions, messages,
               userIdCounter, documentIdCounter, sessionIdCounter, messageIdCounter>>
\* What no step of the server changes
envVars == <<apiKey, clientFile, slots, horizon, sidebar, chatPage>>
vars == <<users, documents, sessions, messages,
          userIdCounter, documentIdCounter, sessionIdCounter, messageIdCounter,
          now, apiKey, clientFile, slots, horizon, reqs, running, phase, assigned, calls,
          sidebar, chatPage>>

Reqs == 1..MaxReqs

\* ------------------------------------------------------------ JS helpers
\* Map.prototype.set: inserts the key, or replaces the value of an existing key.
MapSet(m, k, v) == [x \in (DOMAIN m) \cup {k} |-> IF x = k THEN v ELSE m[x]]

\* Map.prototype.delete
MapDelete(m, k) == [x \in (DOMAIN m) \ {k} |-> m[x]]

\* Map.prototype.get, as the set of values found (empty: undefined)
MapGet(m, k) == IF k \in DOMAIN m THEN {m[k]} ELSE {}

\* Array.from(map.values()): a Map iterates in insertion order.  Keys come from
\* a counter that only grows and set() on an existing key keeps its position,
\* so insertion order is ascending key order.
RECURSIVE ValuesOf(_, _)
ValuesOf(m, keys) ==
    IF keys = {} THEN <<>>
    ELSE LET k == CHOOSE x \in keys : \A y \in keys : x <= y
         IN  <<m[k]>> \o ValuesOf(m, keys \ {k})

MapValues(m) == ValuesOf(m, DOMAIN m)

\* Array.prototype.sort with comparator (a, b) => a.key - b.key on an array of
\* [key, val] pairs: stable insertion sort (ES2019 requires a stable sort).
RECURSIVE InsertSorted(_, _)
InsertSorted(x, s) ==
    IF s = <<>> THEN <<x>>
    ELSE IF x.key < Head(s).key THEN <<x>> \o s
    ELSE <<Head(s)>> \o InsertSorted(x, Tail(s))

RECURSIVE SortPairs(_)
SortPairs(s) ==
    IF s = <<>> THEN <<>>
    ELSE InsertSorted(s[Len(s)], SortPairs(SubSeq(s, 1, Len(s) - 1)))

\* parseInt(string): optional sign, then the longest prefix of decimal digits;
\* NaN (the empty set here) when there is no digit.  Characters of the model:
\* the digits "1", "2", the sign "-" and the letter "z".
IsDigit(c) == c \in {"0", "1", "2", "3", "4", "5", "6", "7", "8", "9"}

DigitVal(c) ==
    CASE c = "0" -> 0 [] c = "1" -> 1 [] c = "2" -> 2 [] c = "3" -> 3 [] c = "4" -> 4
      [] c = "5" -> 5 [] c = "6" -> 6 [] c = "7" -> 7 [] c = "8" -> 8 [] c = "9" -> 9

RECURSIVE DigitPrefix(_)
DigitPrefix(s) ==
    IF s = <<>> \/ ~IsDigit(Head(s)) THEN <<>>
    ELSE <<Head(s)>> \o DigitPrefix(Tail(s))

RECURSIVE DigitsValue(_, _)
DigitsValue(ds, acc) ==
    IF ds = <<>> THEN acc ELSE DigitsValue(Tail(ds), 10 * acc + DigitVal(Head(ds)))

parseInt(s) ==
    LET signed == s # <<>> /\ Head(s) \in {"-", "+"}
        rest == IF signed THEN Tail(s) ELSE s
        ds == DigitPrefix(rest)
    IN  IF ds = <<>> THEN {}
        ELSE {(IF signed /\ Head(s) = "-" THEN -1 ELSE 1) * DigitsValue(ds, 0)}

\* The :id path parameters of the model
Params == {<<"1">>, <<"2">>, <<"1", "2">>, <<"1", "z">>, <<"z", "1">>, <<"-", "1">>, <<"z">>}

\* --------------------------------------------------------------- the store
\* MemStorage.getUserByUsername: the first user, in Map order, with that name
getUserByUsername(username) ==
    LET found == SelectSeq(MapValues(users), LAMBDA user : user.username = username)
    IN  IF found = <<>> THEN {} ELSE {Head(found)}

\* MemStorage.createUser
createUser(insertUser) ==
    LET id == userIdCounter
        user == [id |-> id, username |-> insertUser.username,
                 password |-> insertUser.password]
    IN  /\ userIdCounter <= MaxUsers
        /\ userIdCounter' = userIdCounter + 1
        /\ users' = MapSet(users, id, user)
        /\ assigned' = [assigned EXCEPT !.users = Append(@, id)]
        /\ UNCHANGED <<documents, sessions, messages, documentIdCounter,
                       sessionIdCounter, messageIdCounter, now>>

\* A getDocuments whose comparator is a - b: earliest first
getDocumentsEarliestFirst ==
    LET all == MapValues(documents)
        pairs == [i \in 1..Len(all) |-> [key |-> all[i].uploadedAt, val |-> all[i]]]
        sorted == SortPairs(pairs)
    IN  [i \in 1..Len(sorted) |-> sorted[i].val]

\* MemStorage.getDocuments: sorted by uploadedAt, latest first
getDocuments ==
    LET all == MapValues(documents)
        pairs == [i \in 1..Len(all) |-> [key |-> 0 - all[i].uploadedAt, val |-> all[i]]]
        sorted == SortPairs(pairs)
    IN  [i \in 1..Len(sorted) |-> sorted[i].val]

\* A lookup that answers a missing id with the earliest stored document
getDocumentOrFirst(id) ==
    IF id \in DOMAIN documents \/ documents = <<>>
    THEN MapGet(documents, id)
    ELSE {Head(MapValues(documents))}

\* MemStorage.getDocument
getDocument(id) == MapGet(documents, id)

\* A Document whose size is the length of the extracted text
NewDocumentSizedByContent(insertDocument, t) ==
    [id |-> documentIdCounter,
     name |-> insertDocument.name,
     originalName |-> insertDocument.originalName,
     mimeType |-> insertDocument.mimeType,
     size |-> Len(insertDocument.content),
     content |-> insertDocument.content,
     uploadedAt |-> t]

\* The Document that createDocument builds and returns; t is its `new Date()`
NewDocument(insertDocument, t) ==
    [id |-> documentIdCounter,
     name |-> insertDocument.name,
     originalName |-> insertDocument.originalName,
     mimeType |-> insertDocument.mimeType,
     size |-> insertDocument.size,
     content |-> insertDocument.content,
     uploadedAt |-> t]

\* A createDocument that takes its id from the number of stored documents
createDocumentBySize(insertDocument, t) ==
    LET id == Cardinality(DOMAIN documents) + 1
    IN  /\ documentIdCounter <= MaxDocuments
        /\ documentIdCounter' = documentIdCounter + 1
        /\ documents' = MapSet(documents, id,
                                [NewDocument(insertDocument, t) EXCEPT !.id = id])
        /\ now' = t
        /\ assigned' = [assigned EXCEPT !.documents = Append(@, id)]
        /\ UNCHANGED <<users, sessions, messages, userIdCounter,
                       sessionIdCounter, messageIdCounter>>

\* MemStorage.createDocument
createDocument(insertDocument, t) ==
    LET id == documentIdCounter
    IN  /\ documentIdCounter <= MaxDocuments
        /\ documentIdCounter' = documentIdCounter + 1
        /\ documents' = MapSet(documents, id, NewDocument(insertDocument, t))
        /\ now' = t
        /\ assigned' = [assigned EXCEPT !.documents = Append(@, id)]
        /\ UNCHANGED <<users, sessions, messages, userIdCounter,
                       sessionIdCounter, messageIdCounter>>

\* MemStorage.deleteDocument: the boolean that Map.delete returns
deleteDocumentResult(id) == id \in DOMAIN documents

\* A deleteDocument that also removes the sessions of the document
deleteDocumentAndSessions(id) ==
    /\ documents' = MapDelete(documents, id)
    /\ sessions' = [k \in {x \in DOMAIN sessions : sessions[x].documentId # id}
                       |-> sessions[k]]
    /\ UNCHANGED <<users, messages, userIdCounter, documentIdCounter,
                   sessionIdCounter, messageIdCounter, now, assigned>>

\* MemStorage.deleteDocument
deleteDocument(id) ==
    /\ documents' = MapDelete(documents, id)
    /\ UNCHANGED <<users, sessions, messages, userIdCounter, documentIdCounter,
                   sessionIdCounter, messageIdCounter, now, assigned>>

\* A getSessions without the filter on documentId
getSessionsOfAnyDocument(documentId) ==
    LET mine == MapValues(sessions)
        pairs == [i \in 1..Len(mine) |-> [key |-> 0 - mine[i].lastMessageAt, val |-> mine[i]]]
        sorted == SortPairs(pairs)
    IN  [i \in 1..Len(sorted) |-> sorted[i].val]

\* MemStorage.getSessions: the document's sessions, latest lastMessageAt first
getSessions(documentId) ==
    LET mine == SelectSeq(MapValues(sessions),
                          LAMBDA session : session.documentId = documentId)
        pairs == [i \in 1..Len(mine) |-> [key |-> 0 - mine[i].lastMessageAt, val |-> mine[i]]]
        sorted == SortPairs(pairs)
    IN  [i \in 1..Len(sorted) |-> sorted[i].val]

\* A lookup that answers a missing id with the earliest stored session
getSessionOrFirst(id) ==
    IF id \in DOMAIN sessions \/ sessions = <<>>
    THEN MapGet(sessions, id)
    ELSE {Head(MapValues(sessions))}

\* MemStorage.getSession
getSession(id) == MapGet(sessions, id)

\* The Session that createSession builds and returns; t is its `new Date()`
NewSession(insertSession, t) ==
    [id |-> sessionIdCounter,
     documentId |-> insertSession.documentId,
     name |-> insertSession.name,
     createdAt |-> t,
     lastMessageAt |-> t]

\* A createSession that returns the session without sessions.set(id, session)
createSessionNotStored(insertSession, t) ==
    LET id == sessionIdCounter
    IN  /\ sessionIdCounter <= MaxSessions
        /\ sessionIdCounter' = sessionIdCounter + 1
        /\ sessions' = sessions
        /\ now' = t
        /\ assigned' = [assigned EXCEPT !.sessions = Append(@, id)]
        /\ UNCHANGED <<users, documents, messages, userIdCounter,
                       documentIdCounter, messageIdCounter>>

\* MemStorage.createSession
createSession(insertSession, t) ==
    LET id == sessionIdCounter
    IN  /\ sessionIdCounter <= MaxSessions
        /\ sessionIdCounter' = sessionIdCounter + 1
        /\ sessions' = MapSet(sessions, id, NewSession(insertSession, t))
        /\ now' = t
        /\ assigned' = [assigned EXCEPT !.sessions = Append(@, id)]
        /\ UNCHANGED <<users, documents, messages, userIdCounter,
                       documentIdCounter, messageIdCounter>>

\* An updateSessionName that also sets lastMessageAt back to createdAt
updateSessionNameAndLastMessageAt(id, name) ==
    /\ sessions' = IF id \in DOMAIN sessions
                   THEN MapSet(sessions, id,
                               [sessions[id] EXCEPT !.name = name,
                                                    !.lastMessageAt = sessions[id].createdAt])
                   ELSE sessions
    /\ UNCHANGED <<users, documents, messages, userIdCounter, documentIdCounter,
                   sessionIdCounter, messageIdCounter, now, assigned>>

\* MemStorage.updateSessionName
updateSessionName(id, name) ==
    /\ sessions' = IF id \in DOMAIN sessions
                   THEN MapSet(sessions, id, [sessions[id] EXCEPT !.name = name])
                   ELSE sessions
    /\ UNCHANGED <<users, documents, messages, userIdCounter, documentIdCounter,
                   sessionIdCounter, messageIdCounter, now, assigned>>

\* A getMessages whose comparator is b - a: latest first
getMessagesLatestFirst(sessionId) ==
    LET mine == SelectSeq(MapValues(messages),
                          LAMBDA message : message.documentId = sessionId)
        pairs == [i \in 1..Len(mine) |-> [key |-> 0 - mine[i].timestamp, val |-> mine[i]]]
        sorted == SortPairs(pairs)
    IN  [i \in 1..Len(sorted) |-> sorted[i].val]

\* The filter and sort of getMessages over the values of a Map of messages:
\* the messages whose documentId field is the session id, earliest timestamp
\* first
MessagesOf(stored, sessionId) ==
    LET mine == SelectSeq(MapValues(stored),
                          LAMBDA message : message.documentId = sessionId)
        pairs == [i \in 1..Len(mine) |-> [key |-> mine[i].timestamp, val |-> mine[i]]]
        sorted == SortPairs(pairs)
    IN  [i \in 1..Len(sorted) |-> sorted[i].val]

\* MemStorage.getMessages
getMessages(sessionId) == MessagesOf(messages, sessionId)

\* The Message that createMessage builds and returns; t is its `new Date()`
NewMessage(insertMessage, t) ==
    [id |-> messageIdCounter,
     documentId |-> insertMessage.documentId,
     role |-> insertMessage.role,
     content |-> insertMessage.content,
     timestamp |-> t]

\* A find whose predicate accepts every session: the first stored session
FindSessionAny(insertMessage) == MapValues(sessions)

\* The session createMessage finds for the message: sessions.find(s => s.id === ...)
FindSession(insertMessage) ==
    SelectSeq(MapValues(sessions), LAMBDA s : s.id = insertMessage.documentId)

\* A createMessage that reads messageIdCounter without incrementing it
createMessageSameId(insertMessage, t1, t2) ==
    LET id == messageIdCounter
        found == FindSession(insertMessage)
    IN  /\ messageIdCounter <= MaxMessages
        /\ messageIdCounter' = messageIdCounter
        /\ messages' = MapSet(messages, id, NewMessage(insertMessage, t1))
        /\ IF found # <<>>
           THEN /\ sessions' = MapSet(sessions, Head(found).id,
                                      [Head(found) EXCEPT !.lastMessageAt = t2])
                /\ now' = t2
           ELSE /\ sessions' = sessions
                /\ now' = t1
        /\ assigned' = [assigned EXCEPT !.messages = Append(@, id)]
        /\ UNCHANGED <<users, documents, userIdCounter, documentIdCounter,
                       sessionIdCounter>>

\* A createMessage that stores the message and leaves the session as it is
createMessageOnly(insertMessage, t1, t2) ==
    LET id == messageIdCounter
    IN  /\ messageIdCounter <= MaxMessages
        /\ messageIdCounter' = messageIdCounter + 1
        /\ messages' = MapSet(messages, id, NewMessage(insertMessage, t1))
        /\ sessions' = sessions
        /\ now' = t2
        /\ assigned' = [assigned EXCEPT !.messages = Append(@, id)]
        /\ UNCHANGED <<users, documents, userIdCounter, documentIdCounter,
                       sessionIdCounter>>

\* MemStorage.createMessage: t1 is the `new Date()` of the message, t2 the later
\* `new Date()` of the session's lastMessageAt (read only when the session exists)
createMessage(insertMessage, t1, t2) ==
    LET id == messageIdCounter
        found == FindSession(insertMessage)
    IN  /\ messageIdCounter <= MaxMessages
        /\ messageIdCounter' = messageIdCounter + 1
        /\ messages' = MapSet(messages, id, NewMessage(insertMessage, t1))
        /\ IF found # <<>>
           THEN /\ sessions' = MapSet(sessions, Head(found).id,
                                      [Head(found) EXCEPT !.lastMessageAt = t2])
                /\ now' = t2
           ELSE /\ sessions' = sessions
                /\ now' = t1
        /\ assigned' = [assigned EXCEPT !.messages = Append(@, id)]
        /\ UNCHANGED <<users, documents, userIdCounter, documentIdCounter,
                       sessionIdCounter>>

\* The pairs of clock readings two successive `new Date()` calls can return
DatePairs == {p \in (now..horizon) \X (now..horizon) : p[1] <= p[2]}

\* ------------------------------------------------------- text extraction
\* Buffer.toString('utf8') as fs.readFile(path, 'utf8') applies it: one- and
\* two-byte sequences decode to their character, a byte that starts or
\* continues no sequence to U+FFFD.  The files of the model hold no three- or
\* four-byte sequence.
CodePoint(c) ==
    CASE c = 72 -> "H" [] c = 105 -> "i" [] c = 233 -> "e-acute"
      [] c = 65533 -> "U+FFFD" [] OTHER -> "other"

RECURSIVE Utf8Decode(_)
Utf8Decode(bytes) ==
    IF bytes = <<>> THEN <<>>
    ELSE IF Head(bytes) < 128
         THEN <<CodePoint(Head(bytes))>> \o Utf8Decode(Tail(bytes))
    ELSE IF /\ Head(bytes) \in 194..223
            /\ Len(bytes) >= 2
            /\ bytes[2] \in 128..191
         THEN <<CodePoint((Head(bytes) - 192) * 64 + (bytes[2] - 128))>>
              \o Utf8Decode(Tail(Tail(bytes)))
    ELSE <<CodePoint(65533)>> \o Utf8Decode(Tail(bytes))

\* path.extname(name).toLowerCase() of the file names of the model
ExtName(name) ==
    CASE name = "notes.txt" -> ".txt"
      [] name = "NOTES.TXT" -> ".TXT"
      [] name = "paper.pdf" -> ".pdf"
      [] name = "memo.docx" -> ".docx"
      [] OTHER -> ".exe"

ToLowerCase(ext) == IF ext = ".TXT" THEN ".txt" ELSE ext

MimePdf == "application/pdf"
MimeDoc == "application/msword"
MimeDocx == "application/vnd.openxmlformats-officedocument.wordprocessingml.document"
MimeTxt == "text/plain"
MimeOther == "application/octet-stream"

\* shared/schema.ts
validFileTypes == {MimePdf, MimeDoc, MimeDocx, MimeTxt}

\* The uploads of the model.  size is the length of the buffer multer hands to
\* the handler; the last file is larger than the limit and its bytes are never
\* looked at.
Files ==
    { [originalname |-> "notes.txt", mimetype |-> MimeTxt, size |-> 3, buffer |-> <<72, 195, 169>>],
      [originalname |-> "notes.txt", mimetype |-> MimeTxt, size |-> 0, buffer |-> <<>>],
      [originalname |-> "NOTES.TXT", mimetype |-> MimeTxt, size |-> 2, buffer |-> <<72, 233>>],
      [originalname |-> "paper.pdf", mimetype |-> MimePdf, size |-> 1, buffer |-> <<37>>],
      [originalname |-> "memo.docx", mimetype |-> MimeDocx, size |-> 1, buffer |-> <<80>>],
      [originalname |-> "memo.docx", mimetype |-> MimeDoc, size |-> 1, buffer |-> <<208>>],
      [originalname |-> "tool.exe", mimetype |-> MimeOther, size |-> 1, buffer |-> <<77>>],
      [originalname |-> "tool.exe", mimetype |-> MimeTxt, size |-> 2, buffer |-> <<72, 105>>],
      [originalname |-> "notes.txt", mimetype |-> MimePdf, size |-> 2, buffer |-> <<72, 105>>],
      [originalname |-> "notes.txt", mimetype |-> MimeTxt, size |-> FileSizeLimit + 1,
       buffer |-> <<>>] }

\* multer's fileFilter
fileFilter(file) ==
    LET fileExtension == ToLowerCase(ExtName(file.originalname))
        mimeType == file.mimetype
    IN  \/ fileExtension = ".pdf" /\ mimeType = MimePdf
        \/ fileExtension \in {".doc", ".docx"} /\ mimeType \in {MimeDoc, MimeDocx}
        \/ fileExtension = ".txt" /\ mimeType = MimeTxt

\* What the extraction libraries can return for a PDF or Word file
LibraryTexts == {<<"T">>, <<>>}

PdfFallbackText == <<"Failed to parse PDF content. Please try another file.">>

\* pdfParse: the parser's text, or the fallback text when the parser throws
pdfParse == LibraryTexts \cup {PdfFallbackText}

\* processFile: the outcomes of one call.  Every fs call may fail, mammoth may
\* throw; each failure is rethrown as 'Failed to process file'.
processFile(file) ==
    LET fileType == file.mimetype
        thrown == {[ok |-> FALSE, content |-> <<>>]}
        returned(texts) == {[ok |-> TRUE, content |-> c] : c \in texts}
    IN  IF fileType = MimePdf THEN thrown \cup returned(pdfParse)
        ELSE IF fileType \in {MimeDoc, MimeDocx} THEN thrown \cup returned(LibraryTexts)
        ELSE IF fileType = MimeTxt THEN thrown \cup returned({Utf8Decode(file.buffer)})
        ELSE thrown

\* ------------------------------------------------------ completion client
Replies == {<<"r1">>}

\* groqChatCompletion: the outcomes of one call with the key set
groqChatCompletion(formattedMessages) ==
    {[ok |-> FALSE, content |-> <<>>]} \cup {[ok |-> TRUE, content |-> r] : r \in Replies}

\* ------------------------------------------------------------- requests
\* A request that has not arrived.  Optional values are sets with at most one
\* element.  The last two lines are history: what the handler has created and
\* called so far, whether the document and the session it looked up were in
\* the store at the lookup, and whether its extraction and its completion
\* returned (TRUE) or threw (FALSE).
NoRequest ==
    [kind |-> "none", pc |-> "idle", status |-> 0, rejectedBy |-> "",
     param |-> <<>>, id |-> {}, file |-> {}, body |-> {},
     document |-> {}, session |-> {}, userMessage |-> {}, aiMessage |-> {},
     payload |-> <<>>, formattedMessages |-> <<>>,
     madeDocuments |-> <<>>, madeSessions |-> <<>>, madeMessages |-> <<>>,
     processFileCalls |-> 0, groqCalls |-> 0,
     documentStored |-> {}, sessionStored |-> {}, extracted |-> {}, completed |-> {}]

\* The awaits that end in a later callback of the event loop
IoAwaits == {"await processFile", "await groqChatCompletion"}

\* A handler that has responded returns before anything else is looked at:
\* its return touches nothing but its own locals.
NoneDone == \A g \in Reqs : reqs[g].pc # "done"

\* Requests take the free slot with the least number, while the current
\* callback is still dispatching.
CanDispatch(h) ==
    /\ NoneDone
    /\ h <= slots
    /\ reqs[h].pc = "idle"
    /\ \A g \in Reqs : g < h => reqs[g].pc # "idle"
    /\ phase = "sync"

\* The handler of request h was entered and ran to its first await (or to its
\* response): r is its record there.
Dispatched(h, r) ==
    /\ reqs' = [reqs EXCEPT ![h] = r]
    /\ running' = IF r.pc \in IoAwaits \cup {"done"} THEN running ELSE running \cup {h}
    /\ phase' = "sync"

\* h's awaited store promise is resolved and its continuation is a microtask
CanResume(h, pc) == NoneDone /\ h \in running /\ reqs[h].pc = pc

\* h's awaited I/O has completed: its callback is taken when no other runs
CanComplete(h, pc) == NoneDone /\ running = {} /\ reqs[h].pc = pc

\* The continuation of h ran to its next await (or to its response)
Resumed(h, r) ==
    /\ reqs' = [reqs EXCEPT ![h] = r]
    /\ running' = IF r.pc \in IoAwaits \cup {"done"} THEN running \ {h} ELSE running \cup {h}
    /\ phase' = IF running' = {} THEN "sync" ELSE "micro"

Respond(r, status) == [r EXCEPT !.pc = "done", !.status = status]

\* The response of h has been sent and the handler has returned: its locals
\* are gone
Request_End(h) ==
    /\ reqs[h].pc = "done"
    /\ reqs' = [reqs EXCEPT ![h] = NoRequest]
    /\ UNCHANGED <<storeVars, now, envVars, running, phase, assigned, calls>>

\* ---------------------------------------------------- GET /api/documents
GetDocuments_Dispatch(h) ==
    /\ CanDispatch(h)
    /\ Dispatched(h, [NoRequest EXCEPT !.kind = "GET /api/documents",
                                       !.pc = "await getDocuments",
                                       !.payload = getDocuments])
    /\ UNCHANGED <<storeVars, now, envVars, assigned, calls>>

GetDocuments_Respond(h) ==
    /\ CanResume(h, "await getDocuments")
    /\ Resumed(h, Respond(reqs[h], 200))
    /\ UNCHANGED <<storeVars, now, envVars, assigned, calls>>

\* ------------------------------------------------ GET /api/documents/:id
\* The first lines of every /:id route on documents: parseInt, the isNaN
\* check, and the call of storage.getDocument
DocumentRoute_Dispatch(h, kind, param) ==
    LET id == parseInt(param)
        r == [NoRequest EXCEPT !.kind = kind, !.param = param, !.id = id]
    IN  /\ CanDispatch(h)
        /\ IF id = {}
           THEN Dispatched(h, Respond(r, 400))
           ELSE Dispatched(h, [r EXCEPT !.pc = "await getDocument",
                                        !.document = getDocument(CHOOSE n \in id : TRUE),
                                        !.documentStored = {id \subseteq DOMAIN documents}])
        /\ UNCHANGED <<storeVars, now, envVars, assigned, calls>>

GetDocument_Dispatch(h, param) == DocumentRoute_Dispatch(h, "GET /api/documents/:id", param)

GetDocument_Respond(h) ==
    /\ CanResume(h, "await getDocument")
    /\ reqs[h].kind = "GET /api/documents/:id"
    /\ IF reqs[h].document = {}
       THEN Resumed(h, Respond(reqs[h], 404))
       ELSE Resumed(h, Respond([reqs[h] EXCEPT !.payload = <<CHOOSE d \in reqs[h].document : TRUE>>], 200))
    /\ UNCHANGED <<storeVars, now, envVars, assigned, calls>>

\* --------------------------------------------- DELETE /api/documents/:id
DeleteDocument_Dispatch(h, param) ==
    DocumentRoute_Dispatch(h, "DELETE /api/documents/:id", param)

DeleteDocument_Delete(h) ==
    /\ CanResume(h, "await getDocument")
    /\ reqs[h].kind = "DELETE /api/documents/:id"
    /\ IF reqs[h].document = {}
       THEN /\ Resumed(h, Respond(reqs[h], 404))
            /\ UNCHANGED <<storeVars, now, assigned>>
       ELSE /\ deleteDocument(CHOOSE n \in reqs[h].id : TRUE)
            /\ Resumed(h, [reqs[h] EXCEPT !.pc = "await deleteDocument"])
    /\ UNCHANGED <<envVars, calls>>

DeleteDocument_Respond(h) ==
    /\ CanResume(h, "await deleteDocument")
    /\ Resumed(h, Respond(reqs[h], 200))
    /\ UNCHANGED <<storeVars, now, envVars, assigned, calls>>

\* --------------------------------------- GET /api/documents/:id/sessions
GetSessions_Dispatch(h, param) ==
    DocumentRoute_Dispatch(h, "GET /api/documents/:id/sessions", param)

GetSessions_Query(h) ==
    /\ CanResume(h, "await getDocument")
    /\ reqs[h].kind = "GET /api/documents/:id/sessions"
    /\ IF reqs[h].document = {}
       THEN Resumed(h, Respond(reqs[h], 404))
       ELSE Resumed(h, [reqs[h] EXCEPT !.pc = "await getSessions",
                                       !.payload = getSessions(CHOOSE n \in reqs[h].id : TRUE)])
    /\ UNCHANGED <<storeVars, now, envVars, assigned, calls>>

GetSessions_Respond(h) ==
    /\ CanResume(h, "await getSessions")
    /\ Resumed(h, Respond(reqs[h], 200))
    /\ UNCHANGED <<storeVars, now, envVars, assigned, calls>>

\* The one element of an optional value that is present
The(opt) == CHOOSE x \in opt : TRUE

\* `Chat about ${document.name}`
SessionName(document) == <<"Chat about ", document.name>>

\* `I've processed your ${document.name} document. What would you like to know about it?`
Greeting(document) ==
    <<"I've processed your ", document.name,
      " document. What would you like to know about it?">>

\* The second and third await of the handlers that open a session: the system
\* message for the session just created, then the 201 response
Session_CreateMessage(h, kind) ==
    /\ CanResume(h, "await createSession")
    /\ reqs[h].kind = kind
    /\ \E p \in DatePairs :
         LET insertMessage == [documentId |-> The(reqs[h].session).id,
                               role |-> "system",
                               content |-> Greeting(The(reqs[h].document))]
         IN  /\ createMessage(insertMessage, p[1], p[2])
             /\ Resumed(h, [reqs[h] EXCEPT
                               !.pc = "await createMessage",
                               !.madeMessages = Append(@, NewMessage(insertMessage, p[1]).id)])
    /\ UNCHANGED <<envVars, calls>>

Session_Respond(h, kind) ==
    /\ CanResume(h, "await createMessage")
    /\ reqs[h].kind = kind
    /\ Resumed(h, Respond(reqs[h], 201))
    /\ UNCHANGED <<storeVars, now, envVars, assigned, calls>>

\* -------------------------------------- POST /api/documents/:id/sessions
PostSessions_Dispatch(h, param) ==
    DocumentRoute_Dispatch(h, "POST /api/documents/:id/sessions", param)

PostSessions_CreateSession(h) ==
    /\ CanResume(h, "await getDocument")
    /\ reqs[h].kind = "POST /api/documents/:id/sessions"
    /\ IF reqs[h].document = {}
       THEN /\ Resumed(h, Respond(reqs[h], 404))
            /\ UNCHANGED <<storeVars, now, assigned>>
       ELSE \E t \in now..horizon :
              LET insertSession == [documentId |-> The(reqs[h].id),
                                    name |-> SessionName(The(reqs[h].document))]
              IN  /\ createSession(insertSession, t)
                  /\ Resumed(h, [reqs[h] EXCEPT
                                    !.pc = "await createSession",
                                    !.session = {NewSession(insertSession, t)},
                                    !.madeSessions = Append(@, NewSession(insertSession, t).id)])
    /\ UNCHANGED <<envVars, calls>>

PostSessions_CreateMessage(h) == Session_CreateMessage(h, "POST /api/documents/:id/sessions")

PostSessions_Respond(h) == Session_Respond(h, "POST /api/documents/:id/sessions")

\* ------------------------------------------ GET /api/sessions/:id/messages
GetMessages_Dispatch(h, param) ==
    LET id == parseInt(param)
        r == [NoRequest EXCEPT !.kind = "GET /api/sessions/:id/messages",
                               !.param = param, !.id = id]
    IN  /\ CanDispatch(h)
        /\ IF id = {}
           THEN Dispatched(h, Respond(r, 400))
           ELSE Dispatched(h, [r EXCEPT !.pc = "await getSession",
                                        !.session = getSession(The(id)),
                                        !.sessionStored = {id \subseteq DOMAIN sessions}])
        /\ UNCHANGED <<storeVars, now, envVars, assigned, calls>>

GetMessages_Query(h) ==
    /\ CanResume(h, "await getSession")
    /\ reqs[h].kind = "GET /api/sessions/:id/messages"
    /\ IF reqs[h].session = {}
       THEN Resumed(h, Respond(reqs[h], 404))
       ELSE Resumed(h, [reqs[h] EXCEPT !.pc = "await getMessages",
                                       !.payload = getMessages(The(reqs[h].id))])
    /\ UNCHANGED <<storeVars, now, envVars, assigned, calls>>

GetMessages_Respond(h) ==
    /\ CanResume(h, "await getMessages")
    /\ reqs[h].kind = "GET /api/sessions/:id/messages"
    /\ Resumed(h, Respond(reqs[h], 200))
    /\ UNCHANGED <<storeVars, now, envVars, assigned, calls>>

\* ---------------------------------------------- POST /api/documents/upload
\* An upload route without the file filter and without the handler's checks
Upload_EntersProcessing(h, file) ==
    LET r == [NoRequest EXCEPT !.kind = "POST /api/documents/upload", !.file = file]
    IN  /\ CanDispatch(h)
        /\ IF file = {}
           THEN Dispatched(h, Respond(r, 400))
           ELSE Dispatched(h, [r EXCEPT !.pc = "await processFile",
                                        !.processFileCalls = @ + 1])
        /\ UNCHANGED <<storeVars, now, envVars, assigned, calls>>

\* upload.single('file'): multer's fileFilter and size limit run before the
\* handler; when either rejects the file the handler is not entered.  Then the
\* handler up to its call of processFile.  file is {} when the form has no file.
Upload_Dispatch(h, file) ==
    LET r == [NoRequest EXCEPT !.kind = "POST /api/documents/upload", !.file = file]
    IN  /\ CanDispatch(h)
        /\ IF file # {} /\ ~fileFilter(The(file))
           THEN Dispatched(h, [r EXCEPT !.pc = "done", !.rejectedBy = "fileFilter"])
           ELSE IF file # {} /\ The(file).size > FileSizeLimit
           THEN Dispatched(h, [r EXCEPT !.pc = "done", !.rejectedBy = "LIMIT_FILE_SIZE"])
           ELSE IF file = {}
           THEN Dispatched(h, Respond(r, 400))
           ELSE IF The(file).mimetype \notin validFileTypes
           THEN Dispatched(h, Respond(r, 400))
           ELSE Dispatched(h, [r EXCEPT !.pc = "await processFile",
                                        !.processFileCalls = @ + 1])
        /\ UNCHANGED <<storeVars, now, envVars, assigned, calls>>

\* The catch block of the upload handler
UploadCatch(r) == Respond(r, 500)

\* processFile has settled: the content check and the call of createDocument
Upload_CreateDocument(h) ==
    /\ CanComplete(h, "await processFile")
    /\ \E out \in processFile(The(reqs[h].file)) :
         IF ~out.ok
         THEN /\ Resumed(h, UploadCatch([reqs[h] EXCEPT !.extracted = {FALSE}]))
              /\ UNCHANGED <<storeVars, now, assigned>>
         ELSE IF out.content = <<>>
         THEN /\ Resumed(h, Respond([reqs[h] EXCEPT !.extracted = {TRUE}], 400))
              /\ UNCHANGED <<storeVars, now, assigned>>
         ELSE \E t \in now..horizon :
                LET file == The(reqs[h].file)
                    insertDocument == [name |-> file.originalname,
                                       originalName |-> file.originalname,
                                       mimeType |-> file.mimetype,
                                       size |-> file.size,
                                       content |-> out.content]
                IN  /\ createDocument(insertDocument, t)
                    /\ Resumed(h, [reqs[h] EXCEPT
                                      !.pc = "await createDocument",
                                      !.extracted = {TRUE},
                                      !.document = {NewDocument(insertDocument, t)},
                                      !.madeDocuments = Append(@, NewDocument(insertDocument, t).id)])
    /\ UNCHANGED <<envVars, calls>>

Upload_CreateSession(h) ==
    /\ CanResume(h, "await createDocument")
    /\ \E t \in now..horizon :
         LET insertSession == [documentId |-> The(reqs[h].document).id,
                               name |-> SessionName(The(reqs[h].document))]
         IN  /\ createSession(insertSession, t)
             /\ Resumed(h, [reqs[h] EXCEPT
                               !.pc = "await createSession",
                               !.session = {NewSession(insertSession, t)},
                               !.madeSessions = Append(@, NewSession(insertSession, t).id)])
    /\ UNCHANGED <<envVars, calls>>

\* An upload handler that answers 201 without the system message
Upload_RespondWithoutMessage(h) ==
    /\ CanResume(h, "await createSession")
    /\ reqs[h].kind = "POST /api/documents/upload"
    /\ Resumed(h, Respond(reqs[h], 201))
    /\ UNCHANGED <<storeVars, now, envVars, assigned, calls>>

Upload_CreateMessage(h) == Session_CreateMessage(h, "POST /api/documents/upload")

Upload_Respond(h) == Session_Respond(h, "POST /api/documents/upload")

\* ----------------------------------------------------------- POST /api/chat
\* JSON values of a request body
JsNumber(n) == [type |-> "number", num |-> n, str |-> <<>>]
JsString(s) == [type |-> "string", num |-> 0, str |-> s]
JsUndefined == [type |-> "undefined", num |-> 0, str |-> <<>>]

\* shared/schema.ts: chatSchema.safeParse(body).success
chatSchema(body) ==
    /\ body.documentId.type = "number"
    /\ body.message.type = "string"
    /\ body.sessionId.type \in {"number", "undefined"}

\* The request bodies of the model
ChatBodies ==
    [documentId : {JsNumber(1), JsNumber(2)},
     message : {JsString(<<"q1">>)},
     sessionId : {JsUndefined, JsNumber(0), JsNumber(1), JsNumber(2)}]
    \cup { [documentId |-> JsString(<<"1">>), message |-> JsString(<<"q1">>),
            sessionId |-> JsUndefined],
           [documentId |-> JsNumber(1), message |-> JsUndefined,
            sessionId |-> JsNumber(1)],
           [documentId |-> JsNumber(1), message |-> JsString(<<"q1">>),
            sessionId |-> JsString(<<"1">>)] }

\* `if (sessionId)`: undefined and 0 are falsy
Truthy(v) == v.type = "number" /\ v.num # 0

\* A system prompt without the document's content
SystemPromptOfInstructions(document) ==
    <<"You're an AI assistant specialized in helping users analyze documents. [...] Document Content:">>
    \o <<"Answer the question based on the document content. Be clear, concise, and helpful.">>

\* The system prompt: the instructions around the document's content
SystemPrompt(document) ==
    <<"You're an AI assistant specialized in helping users analyze documents. [...] Document Content:">>
    \o document.content
    \o <<"Answer the question based on the document content. Be clear, concise, and helpful.">>

\* formattedMessages: the system prompt, then role and content of every message
FormatMessages(document, sessionMessages) ==
    <<[role |-> "system", content |-> SystemPrompt(document)]>>
    \o [i \in 1..Len(sessionMessages) |->
          [role |-> sessionMessages[i].role, content |-> sessionMessages[i].content]]

\* A catch block that answers 200
ChatCatchAnswers200(r) == Respond(r, 200)

\* The catch block of the chat handler
ChatCatch(r) == Respond(r, 500)

\* Validation of the body and the call of storage.getDocument
Chat_Dispatch(h, body) ==
    LET r == [NoRequest EXCEPT !.kind = "POST /api/chat", !.body = {body}]
    IN  /\ CanDispatch(h)
        /\ IF ~chatSchema(body)
           THEN Dispatched(h, Respond(r, 400))
           ELSE Dispatched(h, [r EXCEPT !.pc = "await getDocument",
                                        !.document = getDocument(body.documentId.num),
                                        !.documentStored = {body.documentId.num \in DOMAIN documents}])
        /\ UNCHANGED <<storeVars, now, envVars, assigned, calls>>

\* "Verify document exists", then "Get or create session"
Chat_Session(h) ==
    /\ CanResume(h, "await getDocument")
    /\ reqs[h].kind = "POST /api/chat"
    /\ LET body == The(reqs[h].body)
       IN  IF reqs[h].document = {}
           THEN /\ Resumed(h, Respond(reqs[h], 404))
                /\ UNCHANGED <<storeVars, now, assigned>>
           ELSE IF Truthy(body.sessionId)
           THEN /\ Resumed(h, [reqs[h] EXCEPT !.pc = "await getSession",
                                              !.session = getSession(body.sessionId.num),
                                              !.sessionStored = {body.sessionId.num \in DOMAIN sessions}])
                /\ UNCHANGED <<storeVars, now, assigned>>
           ELSE \E t \in now..horizon :
                  LET insertSession == [documentId |-> body.documentId.num,
                                        name |-> SessionName(The(reqs[h].document))]
                  IN  /\ createSession(insertSession, t)
                      /\ Resumed(h, [reqs[h] EXCEPT
                                        !.pc = "await createSession",
                                        !.session = {NewSession(insertSession, t)},
                                        !.madeSessions = Append(@, NewSession(insertSession, t).id)])
    /\ UNCHANGED <<envVars, calls>>

\* The session check, then "Add user message"
Chat_UserMessage(h) ==
    /\ \/ CanResume(h, "await getSession")
       \/ CanResume(h, "await createSession")
    /\ reqs[h].kind = "POST /api/chat"
    /\ IF reqs[h].session = {}
       THEN /\ Resumed(h, Respond(reqs[h], 404))
            /\ UNCHANGED <<storeVars, now, assigned>>
       ELSE \E p \in DatePairs :
              LET insertMessage == [documentId |-> The(reqs[h].session).id,
                                    role |-> "user",
                                    content |-> The(reqs[h].body).message.str]
              IN  /\ createMessage(insertMessage, p[1], p[2])
                  /\ Resumed(h, [reqs[h] EXCEPT
                                    !.pc = "await createMessage(user)",
                                    !.userMessage = {NewMessage(insertMessage, p[1])},
                                    !.madeMessages = Append(@, NewMessage(insertMessage, p[1]).id)])
    /\ UNCHANGED <<envVars, calls>>

\* "Get all messages in the conversation"
Chat_History(h) ==
    /\ CanResume(h, "await createMessage(user)")
    /\ Resumed(h, [reqs[h] EXCEPT !.pc = "await getMessages",
                                  !.payload = getMessages(The(reqs[h].session).id)])
    /\ UNCHANGED <<storeVars, now, envVars, assigned, calls>>

\* The prompt and the call of groqChatCompletion, which throws at once when
\* the key is not set
Chat_Complete(h) ==
    /\ CanResume(h, "await getMessages")
    /\ reqs[h].kind = "POST /api/chat"
    /\ LET r == [reqs[h] EXCEPT
                    !.formattedMessages = FormatMessages(The(reqs[h].document), reqs[h].payload),
                    !.groqCalls = @ + 1]
       IN  IF ~apiKey
           THEN Resumed(h, ChatCatch([r EXCEPT !.completed = {FALSE}]))
           ELSE Resumed(h, [r EXCEPT !.pc = "await groqChatCompletion"])
    /\ UNCHANGED <<storeVars, now, envVars, assigned, calls>>

\* The completion has settled: "Store AI response"
Chat_AiMessage(h) ==
    /\ CanComplete(h, "await groqChatCompletion")
    /\ \E out \in groqChatCompletion(reqs[h].formattedMessages) :
         IF ~out.ok
         THEN /\ Resumed(h, ChatCatch([reqs[h] EXCEPT !.completed = {FALSE}]))
              /\ UNCHANGED <<storeVars, now, assigned>>
         ELSE \E p \in DatePairs :
                LET insertMessage == [documentId |-> The(reqs[h].session).id,
                                      role |-> "assistant",
                                      content |-> out.content]
                IN  /\ createMessage(insertMessage, p[1], p[2])
                    /\ Resumed(h, [reqs[h] EXCEPT
                                      !.pc = "await createMessage(assistant)",
                                      !.completed = {TRUE},
                                      !.aiMessage = {NewMessage(insertMessage, p[1])},
                                      !.madeMessages = Append(@, NewMessage(insertMessage, p[1]).id)])
    /\ UNCHANGED <<envVars, calls>>

Chat_Respond(h) ==
    /\ CanResume(h, "await createMessage(assistant)")
    /\ Resumed(h, Respond(reqs[h], 200))
    /\ UNCHANGED <<storeVars, now, envVars, assigned, calls>>

\* ------------------------------------------------------ the specification
\* The store after construction, no request in flight; files are the files the
\* clients may hold, keys the possible settings of GROQ_API_KEY, n the number of
\* requests that can be in flight together, latest the time the clock reaches.
\* The Sidebar before a page has rendered it: no documents, no active
\* document, the sessions query without data, no navigation yet
NoSidebar == [documents |-> <<>>, activeDocumentId |-> {}, sessions |-> {}, location |-> {}]

\* The chat page at its first render: useState(""), a mutation that is idle,
\* no POST /api/chat sent
NewChatPage == [inputMessage |-> <<>>, isPending |-> FALSE, posts |-> <<>>]

InitWith(files, keys, n, latest) ==
    /\ users = <<>>
    /\ documents = <<>>
    /\ sessions = <<>>
    /\ messages = <<>>
    /\ userIdCounter = 1
    /\ documentIdCounter = 1
    /\ sessionIdCounter = 1
    /\ messageIdCounter = 1
    /\ now = 0
    /\ apiKey \in keys
    /\ clientFile \in files
    /\ slots = n
    /\ horizon = latest
    /\ reqs = [h \in Reqs |-> NoRequest]
    /\ running = {}
    /\ phase = "sync"
    /\ assigned = [users |-> <<>>, documents |-> <<>>, sessions |-> <<>>, messages |-> <<>>]
    /\ calls = 0
    /\ sidebar = NoSidebar
    /\ chatPage = NewChatPage

AnyFile == {{}} \cup {{f} : f \in Files}

TextFile == [originalname |-> "notes.txt", mimetype |-> MimeTxt, size |-> 3, buffer |-> <<72, 195, 169>>]

Init == InitWith(AnyFile, BOOLEAN, 1, 0)

GetDocumentsRoute ==
    \/ \E h \in Reqs : GetDocuments_Dispatch(h)
    \/ \E h \in Reqs : GetDocuments_Respond(h)

GetDocumentRoute ==
    \/ \E h \in Reqs, param \in Params : GetDocument_Dispatch(h, param)
    \/ \E h \in Reqs : GetDocument_Respond(h)

DeleteDocumentRoute ==
    \/ \E h \in Reqs, param \in Params : DeleteDocument_Dispatch(h, param)
    \/ \E h \in Reqs : DeleteDocument_Delete(h)
    \/ \E h \in Reqs : DeleteDocument_Respond(h)

GetSessionsRoute ==
    \/ \E h \in Reqs, param \in Params : GetSessions_Dispatch(h, param)
    \/ \E h \in Reqs : GetSessions_Query(h)
    \/ \E h \in Reqs : GetSessions_Respond(h)

PostSessionsRoute ==
    \/ \E h \in Reqs, param \in Params : PostSessions_Dispatch(h, param)
    \/ \E h \in Reqs : PostSessions_CreateSession(h)
    \/ \E h \in Reqs : PostSessions_CreateMessage(h)
    \/ \E h \in Reqs : PostSessions_Respond(h)

GetMessagesRoute ==
    \/ \E h \in Reqs, param \in Params : GetMessages_Dispatch(h, param)
    \/ \E h \in Reqs : GetMessages_Query(h)
    \/ \E h \in Reqs : GetMessages_Respond(h)

UploadRoute ==
    \/ \E h \in Reqs : Upload_Dispatch(h, clientFile)
    \/ \E h \in Reqs : Upload_CreateDocument(h)
    \/ \E h \in Reqs : Upload_CreateSession(h)
    \/ \E h \in Reqs : Upload_CreateMessage(h)
    \/ \E h \in Reqs : Upload_Respond(h)

ChatRoute ==
    \/ \E h \in Reqs, body \in ChatBodies : Chat_Dispatch(h, body)
    \/ \E h \in Reqs : Chat_Session(h)
    \/ \E h \in Reqs : Chat_UserMessage(h)
    \/ \E h \in Reqs : Chat_History(h)
    \/ \E h \in Reqs : Chat_Complete(h)
    \/ \E h \in Reqs : Chat_AiMessage(h)
    \/ \E h \in Reqs : Chat_Respond(h)

EndOfRequest == \E h \in Reqs : Request_End(h)

\* Every route, one request at a time
Next ==
    \/ GetDocumentsRoute
    \/ GetDocumentRoute
    \/ DeleteDocumentRoute
    \/ GetSessionsRoute
    \/ PostSessionsRoute
    \/ GetMessagesRoute
    \/ UploadRoute
    \/ ChatRoute
    \/ EndOfRequest

Spec == Init /\ [][Next]_vars

\* Uploads, chats and deletions, MaxReqs of them in flight together
InitChat == InitWith({{TextFile}}, BOOLEAN, MaxReqs, 0)

NextChat ==
    \/ UploadRoute
    \/ ChatRoute
    \/ DeleteDocumentRoute
    \/ EndOfRequest

SpecChat == InitChat /\ [][NextChat]_vars

\* The /:id routes and uploads, MaxReqs of them in flight together
InitRoutes == InitWith(AnyFile, {TRUE}, MaxReqs, 0)

NextRoutes ==
    \/ UploadRoute
    \/ GetDocumentRoute
    \/ DeleteDocumentRoute
    \/ GetSessionsRoute
    \/ PostSessionsRoute
    \/ GetMessagesRoute
    \/ EndOfRequest

SpecRoutes == InitRoutes /\ [][NextRoutes]_vars

\* Uploads, new sessions and chats, one request at a time, while the clock
\* advances between the handlers' `new Date()` calls
InitClock == InitWith({{TextFile}}, {TRUE}, 1, MaxClock)

NextClock ==
    \/ UploadRoute
    \/ PostSessionsRoute
    \/ ChatRoute
    \/ EndOfRequest

SpecClock == InitClock /\ [][NextClock]_vars

\* ------------------------------------------- the store, called directly
\* The arguments of the model's direct calls
InsertUsers == [username : {"ann", "bob"}, password : {"pw"}]

InsertDocuments ==
    {[name |-> "notes.txt", originalName |-> "notes.txt", mimeType |-> MimeTxt,
      size |-> 1, content |-> <<"H">>]}

InsertSessions == [documentId : 1..MaxDocuments, name : {<<"Chat about ", "notes.txt">>}]

InsertMessages ==
    [documentId : 1..(MaxSessions + 1), role : {"user", "assistant"}, content : {<<"q1">>}]

MoreCalls == calls < MaxStoreCalls /\ calls' = calls + 1

Call_createUser ==
    /\ MoreCalls
    /\ \E insertUser \in InsertUsers : createUser(insertUser)
    /\ UNCHANGED <<envVars, reqs, running, phase>>

Call_createDocument ==
    /\ MoreCalls
    /\ \E insertDocument \in InsertDocuments, t \in now..horizon :
         createDocument(insertDocument, t)
    /\ UNCHANGED <<envVars, reqs, running, phase>>

Call_deleteDocument ==
    /\ MoreCalls
    /\ \E id \in 1..MaxDocuments : deleteDocument(id)
    /\ UNCHANGED <<envVars, reqs, running, phase>>

Call_createSession ==
    /\ MoreCalls
    /\ \E insertSession \in InsertSessions, t \in now..horizon :
         createSession(insertSession, t)
    /\ UNCHANGED <<envVars, reqs, running, phase>>

Call_updateSessionName ==
    /\ MoreCalls
    /\ \E id \in 1..MaxSessions : updateSessionName(id, <<"renamed">>)
    /\ UNCHANGED <<envVars, reqs, running, phase>>

Call_createMessage ==
    /\ MoreCalls
    /\ \E insertMessage \in InsertMessages, p \in DatePairs :
         createMessage(insertMessage, p[1], p[2])
    /\ UNCHANGED <<envVars, reqs, running, phase>>

InitStore == InitWith({{}}, {TRUE}, 0, MaxClock)

NextStore ==
    \/ Call_createUser
    \/ Call_createDocument
    \/ Call_deleteDocument
    \/ Call_createSession
    \/ Call_updateSessionName
    \/ Call_createMessage

SpecStore == InitStore /\ [][NextStore]_vars

\* ------------------------------------------------------------ the Sidebar
\* A page renders the Sidebar: Home without activeDocumentId, Chat with the
\* document of its location.  documents is the data of the /api/documents
\* query; the sessions query of the active document has no data yet.
Sidebar_Render(active) ==
    /\ running = {}
    /\ sidebar' = [sidebar EXCEPT !.documents = getDocuments,
                                  !.activeDocumentId = active,
                                  !.sessions = {}]
    /\ UNCHANGED <<storeVars, now, apiKey, clientFile, slots, horizon, reqs, running,
                   phase, assigned, calls, chatPage>>

\* The sessions query (enabled: !!activeDocumentId) gets its data: the answer
\* of GET /api/documents/:id/sessions for the active document
Sidebar_SessionsLoaded ==
    /\ running = {}
    /\ sidebar.activeDocumentId # {}
    /\ The(sidebar.activeDocumentId) \in DOMAIN documents
    /\ sidebar' = [sidebar EXCEPT !.sessions = {getSessions(The(sidebar.activeDocumentId))}]
    /\ UNCHANGED <<storeVars, now, apiKey, clientFile, slots, horizon, reqs, running,
                   phase, assigned, calls, chatPage>>

\* The onClick of a document card: the id of the first session of the
\* sessions query when it has data with an element, else 1
ClickTarget(doc) ==
    [documentId |-> doc.id,
     sessionId |-> IF sidebar.sessions # {} /\ Len(The(sidebar.sessions)) > 0
                   THEN The(sidebar.sessions)[1].id
                   ELSE 1]

\* The user clicks the card of a document: navigate, and the chat page of the
\* new location renders the Sidebar with that document active
Sidebar_ClickDocument(i) ==
    /\ i \in 1..Len(sidebar.documents)
    /\ LET doc == sidebar.documents[i]
       IN  sidebar' = [sidebar EXCEPT
                          !.location = {ClickTarget(doc)},
                          !.activeDocumentId = {doc.id},
                          !.sessions = IF sidebar.activeDocumentId = {doc.id}
                                       THEN sidebar.sessions ELSE {}]
    /\ UNCHANGED <<storeVars, now, apiKey, clientFile, slots, horizon, reqs, running,
                   phase, assigned, calls, chatPage>>

\* Uploads and new sessions on the server, one request at a time, and a
\* browser that shows the Sidebar
InitSidebar == InitWith({{TextFile}}, {TRUE}, 1, 0)

NextSidebar ==
    \/ UploadRoute
    \/ PostSessionsRoute
    \/ EndOfRequest
    \/ \E active \in {{}} \cup {{id} : id \in 1..MaxDocuments} : Sidebar_Render(active)
    \/ Sidebar_SessionsLoaded
    \/ \E i \in 1..MaxDocuments : Sidebar_ClickDocument(i)

SpecSidebar == InitSidebar /\ [][NextSidebar]_vars

\* ---------------------------------------------------------- the chat page
\* String.prototype.trim on a string given as a sequence of characters
IsWhiteSpace(c) == c \in {" ", "\t", "\n"}

RECURSIVE TrimStart(_)
TrimStart(str) ==
    IF str # <<>> /\ IsWhiteSpace(Head(str)) THEN TrimStart(Tail(str)) ELSE str

RECURSIVE TrimEnd(_)
TrimEnd(str) ==
    IF str # <<>> /\ IsWhiteSpace(str[Len(str)])
    THEN TrimEnd(SubSeq(str, 1, Len(str) - 1))
    ELSE str

trim(str) == TrimEnd(TrimStart(str))

\* What the user types into the textarea
Texts == {<<>>, <<" ">>, <<"\n", " ">>, <<"q">>, <<" ", "q", " ">>}

\* The texts of the three suggestion buttons
Suggestions ==
    {<<"Summarize", " ", "the", " ", "document">>,
     <<"Extract", " ", "key", " ", "points">>,
     <<"Generate", " ", "questions">>}

\* Chat.handleSendMessage: mutateAsync unless the message is blank.  The
\* mutation function sends POST /api/chat; the post is in flight until it
\* settles.
handleSendMessage(page, message) ==
    IF trim(message) = <<>>
    THEN page
    ELSE [page EXCEPT !.posts = Append(@, [message |-> message, settled |-> FALSE])]

\* chatMutation.isPending as the mutation observer holds it: the mutation of
\* the latest mutateAsync has not settled
MutationPending(page) ==
    page.posts # <<>> /\ ~page.posts[Len(page.posts)].settled

\* onChange of the textarea: setInputMessage(e.target.value)
ChatInterface_Change(text) ==
    /\ chatPage' = [chatPage EXCEPT !.inputMessage = text]
    /\ UNCHANGED <<storeVars, now, apiKey, clientFile, slots, horizon, reqs, running,
                   phase, assigned, calls, sidebar>>

\* ChatInterface.handleSubmit, with the inputMessage and the isPending prop of
\* the last render
ChatInterface_Submit ==
    /\ Len(chatPage.posts) < MaxPosts
    /\ chatPage' = IF trim(chatPage.inputMessage) # <<>> /\ ~chatPage.isPending
                   THEN [handleSendMessage(chatPage, chatPage.inputMessage)
                            EXCEPT !.inputMessage = <<>>]
                   ELSE chatPage
    /\ UNCHANGED <<storeVars, now, apiKey, clientFile, slots, horizon, reqs, running,
                   phase, assigned, calls, sidebar>>

\* ChatInterface.handleSendSuggestion, with the isPending prop of the last
\* render
ChatInterface_SendSuggestion(suggestion) ==
    /\ Len(chatPage.posts) < MaxPosts
    /\ chatPage' = IF ~chatPage.isPending
                   THEN handleSendMessage(chatPage, suggestion)
                   ELSE chatPage
    /\ UNCHANGED <<storeVars, now, apiKey, clientFile, slots, horizon, reqs, running,
                   phase, assigned, calls, sidebar>>

\* The response of a post arrives: its mutation settles (onSuccess or onError)
Mutation_Settle(i) ==
    /\ i \in 1..Len(chatPage.posts)
    /\ ~chatPage.posts[i].settled
    /\ chatPage' = [chatPage EXCEPT !.posts[i].settled = TRUE]
    /\ UNCHANGED <<storeVars, now, apiKey, clientFile, slots, horizon, reqs, running,
                   phase, assigned, calls, sidebar>>

\* Chat renders again after the mutation observer has notified it, and hands
\* chatMutation.isPending to ChatInterface
ChatPage_Render ==
    /\ chatPage' = [chatPage EXCEPT !.isPending = MutationPending(chatPage)]
    /\ UNCHANGED <<storeVars, now, apiKey, clientFile, slots, horizon, reqs, running,
                   phase, assigned, calls, sidebar>>

\* The chat page of one session, with a user who types, submits and clicks
InitChatPage == InitWith({{}}, {TRUE}, 0, 0)

NextChatPage ==
    \/ \E text \in Texts : ChatInterface_Change(text)
    \/ ChatInterface_Submit
    \/ \E suggestion \in Suggestions : ChatInterface_SendSuggestion(suggestion)
    \/ \E i \in 1..MaxPosts : Mutation_Settle(i)
    \/ ChatPage_Render

SpecChatPage == InitChatPage /\ [][NextChatPage]_vars

\* ================================================================ claims
\* The chat requests that have been answered
DoneChat(h) == reqs[h].kind = "POST /api/chat" /\ reqs[h].pc = "done"

ChatBody(h) == The(reqs[h].body)

\* Position of the message with this id in a getMessages result (0: absent)
IndexOf(list, id) ==
    IF \E i \in 1..Len(list) : list[i].id = id
    THEN CHOOSE i \in 1..Len(list) : list[i].id = id
    ELSE 0

\* Request h has created exactly two messages for session sid: first a user
\* message with the text of the request, then an assistant message, and the
\* session's history holds them in that order.
UserThenAssistant(h, sid) ==
    LET made == reqs[h].madeMessages
        history == getMessages(sid)
    IN  /\ Len(made) = 2
        /\ made[1] # made[2]
        /\ {made[1], made[2]} \subseteq DOMAIN messages
        /\ messages[made[1]].role = "user"
        /\ messages[made[1]].content = ChatBody(h).message.str
        /\ messages[made[1]].documentId = sid
        /\ messages[made[2]].role = "assistant"
        /\ messages[made[2]].documentId = sid
        /\ IndexOf(history, made[1]) > 0
        /\ IndexOf(history, made[1]) < IndexOf(history, made[2])

\* The request named a stored document and carried the id of a stored session
ChatOnSession(h) ==
    /\ DoneChat(h)
    /\ reqs[h].documentStored = {TRUE}
    /\ ChatBody(h).sessionId.type = "number"
    /\ reqs[h].sessionStored = {TRUE}

\* C1 as claimed: every chat request on a stored document and a stored session
\* appends exactly two messages, user then assistant, to that session and
\* creates no session.
C1_AsClaimed ==
    \A h \in Reqs :
        ChatOnSession(h) =>
            /\ UserThenAssistant(h, ChatBody(h).sessionId.num)
            /\ reqs[h].madeSessions = <<>>

\* C1: every chat request on a stored document and a stored session that is
\* answered 200 has appended exactly two messages to that session's history,
\* a user message with the request's text and then an assistant message, and
\* has created no session.
C1_TwoMessagesWhenAnswered200 ==
    \A h \in Reqs :
        ChatOnSession(h) /\ reqs[h].status = 200 =>
            /\ UserThenAssistant(h, ChatBody(h).sessionId.num)
            /\ reqs[h].madeSessions = <<>>

C1_Witness ==
    \E h \in Reqs :
        /\ ChatOnSession(h)
        /\ reqs[h].status = 200
        /\ Len(getMessages(ChatBody(h).sessionId.num)) >= 3

\* The request named a stored document and carried no sessionId
ChatWithoutSession(h) ==
    /\ DoneChat(h)
    /\ reqs[h].documentStored = {TRUE}
    /\ ChatBody(h).sessionId.type = "undefined"

\* Request h has created exactly one session, for the document it named
OneNewSession(h) ==
    /\ Len(reqs[h].madeSessions) = 1
    /\ reqs[h].madeSessions[1] \in DOMAIN sessions
    /\ sessions[reqs[h].madeSessions[1]].documentId = ChatBody(h).documentId.num

\* C2 as claimed: every chat request on a stored document without sessionId
\* creates one session for the document and two messages, user then assistant,
\* and the new session's history is exactly those two.
C2_AsClaimed ==
    \A h \in Reqs :
        ChatWithoutSession(h) =>
            /\ OneNewSession(h)
            /\ UserThenAssistant(h, reqs[h].madeSessions[1])
            /\ Len(getMessages(reqs[h].madeSessions[1])) = 2

\* C2: every chat request on a stored document without sessionId that is
\* answered 200 has created exactly one session, for the document it named,
\* and exactly two messages, user then assistant, which the new session's
\* history holds in that order.
C2_NewSessionWhenAnswered200 ==
    \A h \in Reqs :
        ChatWithoutSession(h) /\ reqs[h].status = 200 =>
            /\ OneNewSession(h)
            /\ UserThenAssistant(h, reqs[h].madeSessions[1])

C2_Witness ==
    \E h \in Reqs :
        /\ ChatWithoutSession(h)
        /\ reqs[h].status = 200
        /\ Len(getMessages(reqs[h].madeSessions[1])) = 2
        /\ sessionIdCounter > 2

\* C3 as claimed: a chat request on a stored document whose sessionId is a
\* number that is not the id of a stored session is answered 404 and creates
\* neither a session nor a message.  (0 is never the id of a session.)
C3_AsClaimed ==
    \A h \in Reqs :
        /\ DoneChat(h)
        /\ reqs[h].documentStored = {TRUE}
        /\ ChatBody(h).sessionId.type = "number"
        /\ ChatBody(h).sessionId.num = 0 \/ reqs[h].sessionStored = {FALSE}
        => /\ reqs[h].status = 404
           /\ reqs[h].madeSessions = <<>>
           /\ reqs[h].madeMessages = <<>>

\* C4: a chat request whose documentId names no stored document is answered
\* 404, has created no session and no message, and has not called the
\* completion client; also when it carries no sessionId.
C4_UnknownDocumentLeavesStore ==
    \A h \in Reqs :
        DoneChat(h) /\ reqs[h].documentStored = {FALSE} =>
            /\ reqs[h].status = 404
            /\ reqs[h].madeDocuments = <<>>
            /\ reqs[h].madeSessions = <<>>
            /\ reqs[h].madeMessages = <<>>
            /\ reqs[h].groqCalls = 0

C4_Witness ==
    \E h \in Reqs :
        /\ DoneChat(h)
        /\ reqs[h].documentStored = {FALSE}
        /\ ChatBody(h).sessionId.type = "undefined"
        /\ documents # <<>>
        /\ reqs[h].status = 404

\* C5: when the completion client fails in a chat request (no key, or an
\* upstream error), it was called exactly once, the request is answered 500,
\* the user message is in the session's history and the request has created
\* no assistant message.
C5_FailedCompletion ==
    \A h \in Reqs :
        DoneChat(h) /\ reqs[h].completed = {FALSE} =>
            LET made == reqs[h].madeMessages
                sid == The(reqs[h].session).id
            IN  /\ reqs[h].groqCalls = 1
                /\ reqs[h].status = 500
                /\ Len(made) = 1
                /\ made[1] \in DOMAIN messages
                /\ messages[made[1]].role = "user"
                /\ messages[made[1]].content = ChatBody(h).message.str
                /\ IndexOf(getMessages(sid), made[1]) > 0
                /\ reqs[h].aiMessage = {}

C5_Witness ==
    \E h \in Reqs :
        /\ DoneChat(h)
        /\ reqs[h].completed = {FALSE}
        /\ apiKey
        /\ reqs[h].status = 500
        /\ reqs[h].madeMessages # <<>>

\* The ids of a history, as a set
Range(seq) == {seq[i] : i \in 1..Len(seq)}

\* The ids handed out so far are positive and each is greater than all before
StrictlyIncreasing(seq) ==
    /\ \A i \in 1..Len(seq) : seq[i] >= 1
    /\ \A i, j \in 1..Len(seq) : i < j => seq[i] < seq[j]

\* Every entry of the Map is stored under the id it carries, and that id was
\* handed out by a create
KeyedByAssignedId(map, seq) ==
    /\ DOMAIN map \subseteq Range(seq)
    /\ \A id \in DOMAIN map : map[id].id = id

\* C6: after any sequence of createUser, createDocument, createSession,
\* createMessage, updateSessionName and deleteDocument calls, the ids handed
\* out for each kind are positive and strictly increasing in the order of
\* their assignment; every entry is stored under its own id; no create has
\* replaced an entry (users, sessions and messages are never removed, so each
\* Map holds as many entries as ids were handed out); and the next document id
\* is greater than every id handed out, deleted or not.  The store methods
\* run without yielding, so the store calls of interleaved handlers are one
\* such sequence.
C6_IdsIncreaseAndAreNeverReused ==
    /\ StrictlyIncreasing(assigned.users)
    /\ StrictlyIncreasing(assigned.documents)
    /\ StrictlyIncreasing(assigned.sessions)
    /\ StrictlyIncreasing(assigned.messages)
    /\ KeyedByAssignedId(users, assigned.users)
    /\ KeyedByAssignedId(documents, assigned.documents)
    /\ KeyedByAssignedId(sessions, assigned.sessions)
    /\ KeyedByAssignedId(messages, assigned.messages)
    /\ Cardinality(DOMAIN users) = Len(assigned.users)
    /\ Cardinality(DOMAIN sessions) = Len(assigned.sessions)
    /\ Cardinality(DOMAIN messages) = Len(assigned.messages)
    /\ \A id \in Range(assigned.documents) : id < documentIdCounter
    /\ \A id \in Range(assigned.users) : id < userIdCounter
    /\ \A id \in Range(assigned.sessions) : id < sessionIdCounter
    /\ \A id \in Range(assigned.messages) : id < messageIdCounter

\* A document was deleted and a later document was created, next to a message
C6_Witness ==
    /\ Len(assigned.documents) = 2
    /\ assigned.documents[1] \notin DOMAIN documents
    /\ assigned.documents[2] \in DOMAIN documents
    /\ Len(assigned.messages) = 1

\* Request h is answered and its parameter parsed to a number
DoneById(h, kind) ==
    /\ reqs[h].kind = kind
    /\ reqs[h].pc = "done"
    /\ reqs[h].id # {}

\* The answer of request h is 404: no payload, nothing created
NotFoundOnly(h) ==
    /\ reqs[h].status = 404
    /\ reqs[h].payload = <<>>
    /\ reqs[h].madeSessions = <<>>
    /\ reqs[h].madeMessages = <<>>

\* C7: GET /api/documents/:id, GET /api/documents/:id/sessions and
\* POST /api/documents/:id/sessions answer 404 whenever the number parsed
\* from :id was not the id of a stored document when the handler looked it
\* up, and GET /api/sessions/:id/messages answers 404 whenever it was not the
\* id of a stored session; none of them sends a payload or creates anything
\* then.  The id of a deleted document is such a number.
C7_MissingIdIs404 ==
    \A h \in Reqs :
        /\ \A kind \in {"GET /api/documents/:id", "GET /api/documents/:id/sessions",
                         "POST /api/documents/:id/sessions"} :
              DoneById(h, kind) /\ reqs[h].documentStored = {FALSE} => NotFoundOnly(h)
        /\ DoneById(h, "GET /api/sessions/:id/messages") /\ reqs[h].sessionStored = {FALSE}
              => NotFoundOnly(h)

\* The sessions of a deleted document were asked for while another document
\* is stored
C7_Witness ==
    \E h \in Reqs :
        /\ DoneById(h, "GET /api/documents/:id/sessions")
        /\ The(reqs[h].id) \in Range(assigned.documents)
        /\ The(reqs[h].id) \notin DOMAIN documents
        /\ documents # <<>>
        /\ getSessions(The(reqs[h].id)) # <<>>
        /\ reqs[h].status = 404

\* Request h is an answered upload that carried a file
DoneUpload(h) ==
    /\ reqs[h].kind = "POST /api/documents/upload"
    /\ reqs[h].pc = "done"
    /\ reqs[h].file # {}

\* Request h has created nothing
MadeNothing(h) ==
    /\ reqs[h].madeDocuments = <<>>
    /\ reqs[h].madeSessions = <<>>
    /\ reqs[h].madeMessages = <<>>

\* C8: an upload whose file has a MIME type outside validFileTypes ends
\* without a call of processFile, without a Document, Session or Message
\* created, and is not answered 201.
C8_InvalidMimeNeverProcessed ==
    \A h \in Reqs :
        DoneUpload(h) /\ The(reqs[h].file).mimetype \notin validFileTypes =>
            /\ reqs[h].processFileCalls = 0
            /\ MadeNothing(h)
            /\ reqs[h].status # 201

C8_Witness ==
    \E h \in Reqs :
        /\ DoneUpload(h)
        /\ The(reqs[h].file).mimetype = MimeOther
        /\ reqs[h].rejectedBy = "fileFilter"
        /\ reqs[h].processFileCalls = 0

\* Request h is an answered upload of a valid .txt file: extension .txt in
\* any case, MIME text/plain, size within the limit
DoneTxtUpload(h) ==
    /\ DoneUpload(h)
    /\ ToLowerCase(ExtName(The(reqs[h].file).originalname)) = ".txt"
    /\ The(reqs[h].file).mimetype = MimeTxt
    /\ The(reqs[h].file).size <= FileSizeLimit

\* Request h was answered 201 and the Document it created is stored with the
\* size of the file and the decoded text of the file
StoredAsUploaded(h) ==
    /\ reqs[h].status = 201
    /\ Len(reqs[h].madeDocuments) = 1
    /\ reqs[h].madeDocuments[1] \in DOMAIN documents
    /\ documents[reqs[h].madeDocuments[1]].size = The(reqs[h].file).size
    /\ documents[reqs[h].madeDocuments[1]].content = Utf8Decode(The(reqs[h].file).buffer)

\* C9 as claimed, read in its favour (the file system does not fail): every
\* valid .txt upload of any size whose extraction returns is answered 201 and
\* its Document is stored with the file's size and decoded text.
C9_AsClaimed ==
    \A h \in Reqs :
        DoneTxtUpload(h) /\ reqs[h].extracted = {TRUE} => StoredAsUploaded(h)

\* C9: every valid .txt upload of at least one byte whose extraction
\* returns is answered 201 and its Document is stored with the file's size
\* and decoded text; an empty file is answered 400 and an upload whose
\* extraction throws is answered 500, and neither creates anything.
C9_NonEmptyTxtStoredAsUploaded ==
    \A h \in Reqs :
        DoneTxtUpload(h) =>
            /\ reqs[h].processFileCalls = 1
            /\ The(reqs[h].file).size >= 1 /\ reqs[h].extracted = {TRUE}
                  => StoredAsUploaded(h)
            /\ The(reqs[h].file).size = 0 /\ reqs[h].extracted = {TRUE}
                  => reqs[h].status = 400 /\ MadeNothing(h)
            /\ reqs[h].extracted = {FALSE}
                  => reqs[h].status = 500 /\ MadeNothing(h)

\* A three-byte file of two characters was stored
C9_Witness ==
    \E h \in Reqs :
        /\ DoneTxtUpload(h)
        /\ The(reqs[h].file).size = 3
        /\ reqs[h].status = 201
        /\ Len(documents[reqs[h].madeDocuments[1]].content) = 2

\* Upload h has created its Document but not yet its system Message
PartlyCreated(h) ==
    /\ reqs[h].kind = "POST /api/documents/upload"
    /\ reqs[h].pc \in {"await createDocument", "await createSession"}

\* Upload h has created its Document, the Session of that Document and the
\* system Message of that Session, one of each, and all three are stored
AllThreeCreated(h) ==
    /\ Len(reqs[h].madeDocuments) = 1
    /\ Len(reqs[h].madeSessions) = 1
    /\ Len(reqs[h].madeMessages) = 1
    /\ reqs[h].madeDocuments[1] \in DOMAIN documents
    /\ reqs[h].madeSessions[1] \in DOMAIN sessions
    /\ reqs[h].madeMessages[1] \in DOMAIN messages
    /\ sessions[reqs[h].madeSessions[1]].documentId = reqs[h].madeDocuments[1]
    /\ messages[reqs[h].madeMessages[1]].documentId = reqs[h].madeSessions[1]
    /\ messages[reqs[h].madeMessages[1]].role = "system"

\* C10: while an upload has created its Document but not yet its Session and
\* system Message, no other request handler takes a step (none is entered,
\* none resumes), so none observes the store in between; and an upload that
\* has ended has created either nothing, or all three, and it is answered 201
\* exactly when it has created all three.
C10_UploadCreatesAllOrNothing ==
    [][ /\ \A h \in Reqs :
             PartlyCreated(h) => \A g \in Reqs \ {h} : reqs'[g] = reqs[g]
        /\ \A h \in Reqs :
             (DoneUpload(h))' =>
                 /\ (MadeNothing(h))' \/ (AllThreeCreated(h))'
                 /\ (reqs[h].status = 201)' <=> (AllThreeCreated(h))'
      ]_vars

\* An upload has created its Document only, while another request is in
\* flight
C10_Witness ==
    \E h \in Reqs :
        /\ PartlyCreated(h)
        /\ reqs[h].madeSessions = <<>>
        /\ \E g \in Reqs \ {h} : reqs[g].pc \notin {"idle", "done"}

\* The list holds exactly the values of the set, each once
HoldsEachOnce(list, values) ==
    /\ Len(list) = Cardinality(values)
    /\ \A v \in values : \E i \in 1..Len(list) : list[i] = v
    /\ \A i, j \in 1..Len(list) : i # j => list[i].id # list[j].id

\* C11: after any sequence of createDocument and deleteDocument calls (among
\* the other store calls, the clock advancing between them), getDocuments
\* returns exactly the stored documents, each once, and no document comes
\* before one that was uploaded later.
C11_DocumentsLatestFirst ==
    LET result == getDocuments
    IN  /\ HoldsEachOnce(result, {documents[id] : id \in DOMAIN documents})
        /\ \A i \in 1..(Len(result) - 1) : result[i].uploadedAt >= result[i + 1].uploadedAt

\* Two documents uploaded at different times are stored and the later one is
\* returned first
C11_Witness ==
    /\ DOMAIN documents = {1, 2}
    /\ documents[1].uploadedAt < documents[2].uploadedAt
    /\ getDocuments[1].id = 2
    /\ getDocuments[2].id = 1

\* The session ids the calls of the model can name, and one more
SessionIds == 0..(MaxSessions + 2)

\* C12: for every session id, getMessages returns exactly the stored messages
\* whose documentId field is that id, each once, no message before one with an
\* earlier timestamp, and messages of equal timestamp in the order of their
\* creation (ascending id).
C12_MessagesOfSessionEarliestFirst ==
    \A sessionId \in SessionIds :
        LET result == getMessages(sessionId)
        IN  /\ HoldsEachOnce(result, {messages[id] : id \in
                      {k \in DOMAIN messages : messages[k].documentId = sessionId}})
            /\ \A i \in 1..(Len(result) - 1) :
                  \/ result[i].timestamp < result[i + 1].timestamp
                  \/ /\ result[i].timestamp = result[i + 1].timestamp
                     /\ result[i].id < result[i + 1].id

\* A session has three messages, two of them of equal timestamp, next to a
\* message of another session
C12_Witness ==
    \E sessionId \in SessionIds :
        LET result == getMessages(sessionId)
        IN  /\ Len(result) = 3
            /\ result[1].timestamp = result[2].timestamp
            /\ result[2].timestamp < result[3].timestamp
            /\ Len(result) < Cardinality(DOMAIN messages)

\* This step is a call of createMessage: it has taken a message id
CreatedMessage == messageIdCounter' = messageIdCounter + 1

\* C13: the clock never going back, every step keeps every session and never
\* lowers its lastMessageAt; and a call of createMessage whose documentId
\* field names a stored session sets that session's lastMessageAt to the time
\* of the call, which is at least the previous value and at least the
\* message's timestamp, changes no other field of it, and changes no other
\* session.
C13_LastMessageAtNeverDecreases ==
    [][ /\ \A id \in DOMAIN sessions :
             /\ id \in DOMAIN sessions'
             /\ sessions'[id].lastMessageAt >= sessions[id].lastMessageAt
        /\ CreatedMessage =>
             LET message == messages'[messageIdCounter]
             IN  /\ DOMAIN sessions' = DOMAIN sessions
                 /\ \A id \in DOMAIN sessions :
                       IF id = message.documentId
                       THEN /\ sessions'[id] = [sessions[id] EXCEPT !.lastMessageAt = now']
                            /\ now' >= message.timestamp
                       ELSE sessions'[id] = sessions[id]
      ]_vars

\* A message has moved the lastMessageAt of its session past the session's
\* creation, and another session is as it was created
C13_Witness ==
    \E id \in DOMAIN sessions :
        /\ sessions[id].createdAt < sessions[id].lastMessageAt
        /\ \E k \in DOMAIN messages : messages[k].documentId = id
        /\ \E other \in DOMAIN sessions \ {id} :
              sessions[other].createdAt = sessions[other].lastMessageAt

\* The document ids the calls of the model can name, and one more
DocumentIds == 0..(MaxDocuments + 1)

\* The stored sessions of a document
SessionsOf(documentId) ==
    {sessions[id] : id \in {k \in DOMAIN sessions : sessions[k].documentId = documentId}}

\* The messages created for the stored sessions of a document
MessagesOfDocument(documentId) ==
    {k \in DOMAIN messages :
        \E session \in SessionsOf(documentId) : messages[k].documentId = session.id}

\* The session of the document that received a message last: the one the
\* message with the greatest id was created for
LastRecipient(documentId) ==
    LET last == CHOOSE k \in MessagesOfDocument(documentId) :
                    \A j \in MessagesOfDocument(documentId) : j <= k
    IN  messages[last].documentId

\* getSessions returns exactly the stored sessions of the document, each once,
\* and no session before one with a later lastMessageAt
SessionsLatestFirst(documentId) ==
    LET result == getSessions(documentId)
    IN  /\ HoldsEachOnce(result, SessionsOf(documentId))
        /\ \A i \in 1..(Len(result) - 1) :
              result[i].lastMessageAt >= result[i + 1].lastMessageAt

\* C14 as claimed, read in its favour (every session of the document has
\* received a message): getSessions returns exactly the document's sessions,
\* latest lastMessageAt first, and the session that received a message last
\* comes first.
C14_AsClaimed ==
    \A documentId \in DocumentIds :
        /\ SessionsLatestFirst(documentId)
        /\ /\ SessionsOf(documentId) # {}
           /\ \A session \in SessionsOf(documentId) :
                 \E k \in DOMAIN messages : messages[k].documentId = session.id
           => getSessions(documentId)[1].id = LastRecipient(documentId)

\* C14: for every document id, getSessions returns exactly the stored
\* sessions whose documentId is that id, each once, no session before one
\* with a later lastMessageAt and sessions of equal lastMessageAt in the order
\* of their creation; the session that received a message last comes first
\* when its lastMessageAt is later than that of every other session of the
\* document.
C14_SessionsLatestFirstTiesInCreationOrder ==
    \A documentId \in DocumentIds :
        LET result == getSessions(documentId)
        IN  /\ SessionsLatestFirst(documentId)
            /\ \A i \in 1..(Len(result) - 1) :
                  result[i].lastMessageAt = result[i + 1].lastMessageAt
                      => result[i].id < result[i + 1].id
            /\ /\ MessagesOfDocument(documentId) # {}
               /\ \A session \in SessionsOf(documentId) :
                     session.id # LastRecipient(documentId) =>
                         session.lastMessageAt
                             < sessions[LastRecipient(documentId)].lastMessageAt
               => result[1].id = LastRecipient(documentId)

\* Of two sessions of a document the one created later received a message
\* later and is returned first
C14_Witness ==
    \E documentId \in DocumentIds :
        LET result == getSessions(documentId)
        IN  /\ Len(result) = 2
            /\ result[1].id > result[2].id
            /\ result[1].lastMessageAt > result[2].lastMessageAt
            /\ MessagesOfDocument(documentId) # {}
            /\ LastRecipient(documentId) = result[1].id

\* This step is the call of storage.deleteDocument by DELETE handler h
CalledDeleteDocument(h) ==
    /\ reqs[h].kind = "DELETE /api/documents/:id"
    /\ reqs[h].pc = "await getDocument"
    /\ reqs'[h].pc = "await deleteDocument"

\* C15: a call of deleteDocument(id) returns true exactly when a document
\* with that id is stored, and then removes that document and no other; it
\* returns false and leaves the documents as they are otherwise.  Either way
\* users, sessions, messages and the four id counters are unchanged, and
\* getSession, getSessions and getMessages return after the call what they
\* returned before it.
C15_DeleteRemovesOnlyTheDocument ==
    [][ \A h \in Reqs :
          CalledDeleteDocument(h) =>
              LET id == The(reqs[h].id)
              IN  /\ deleteDocumentResult(id) <=> documents' # documents
                  /\ deleteDocumentResult(id) <=>
                        id \in DOMAIN documents /\ id \notin DOMAIN documents'
                  /\ DOMAIN documents \ {id} = DOMAIN documents' \ {id}
                  /\ \A k \in DOMAIN documents \ {id} : documents'[k] = documents[k]
                  /\ UNCHANGED <<users, sessions, messages, userIdCounter,
                                 documentIdCounter, sessionIdCounter, messageIdCounter>>
                  /\ (getSessions(id))' = getSessions(id)
                  /\ \A sessionId \in SessionIds :
                        /\ (getSession(sessionId))' = getSession(sessionId)
                        /\ (getMessages(sessionId))' = getMessages(sessionId)
      ]_vars

\* Two DELETE requests for one document have both called deleteDocument, the
\* second after the document was gone, and the sessions and messages of the
\* document are still returned
C15_Witness ==
    \E h, g \in Reqs :
        /\ h # g
        /\ reqs[h].pc = "await deleteDocument"
        /\ reqs[g].pc = "await deleteDocument"
        /\ reqs[h].id = reqs[g].id
        /\ The(reqs[h].id) \notin DOMAIN documents
        /\ getSessions(The(reqs[h].id)) # <<>>
        /\ getMessages(getSessions(The(reqs[h].id))[1].id) # <<>>

\* The extraction of upload h failed: processFile threw, or the PDF parser
\* threw and pdfParse returned its fallback text in place of the file's text
ExtractionFailed(h) ==
    \/ reqs[h].extracted = {FALSE}
    \/ /\ The(reqs[h].file).mimetype = MimePdf
       /\ reqs[h].document # {}
       /\ The(reqs[h].document).content = PdfFallbackText

\* C16 as claimed: every upload of an accepted file whose text extraction
\* failed is answered 500 and has created no Document, Session or Message.
C16_AsClaimed ==
    \A h \in Reqs :
        DoneUpload(h) /\ ExtractionFailed(h) =>
            /\ reqs[h].status = 500
            /\ MadeNothing(h)

\* The path parameter is a decimal number: an optional sign, then digits only
NumericParam(param) ==
    LET rest == IF param # <<>> /\ Head(param) \in {"-", "+"} THEN Tail(param) ELSE param
    IN  rest # <<>> /\ \A i \in 1..Len(rest) : IsDigit(rest[i])

\* Request h is answered and its input is not valid: an id parameter that is
\* no number, a chat body that does not match chatSchema, an upload without
\* a file or with a MIME type outside validFileTypes
FailedValidation(h) ==
    /\ reqs[h].pc = "done"
    /\ \/ /\ reqs[h].kind \in {"GET /api/documents/:id", "DELETE /api/documents/:id",
                               "GET /api/documents/:id/sessions",
                               "POST /api/documents/:id/sessions",
                               "GET /api/sessions/:id/messages"}
          /\ ~NumericParam(reqs[h].param)
       \/ /\ reqs[h].kind = "POST /api/chat"
          /\ ~chatSchema(ChatBody(h))
       \/ /\ reqs[h].kind = "POST /api/documents/upload"
          /\ \/ reqs[h].file = {}
             \/ The(reqs[h].file).mimetype \notin validFileTypes

\* C17 as claimed, read in its favour (the answer to an upload that multer
\* refuses is written by the application's error middleware, and is taken to
\* be the 400 of the claim): every request that fails validation is answered
\* 400 and has created nothing, called neither processFile nor the completion
\* client and deleted nothing.
C17_AsClaimed ==
    \A h \in Reqs :
        FailedValidation(h) =>
            /\ reqs[h].status = 400 \/ reqs[h].rejectedBy # ""
            /\ MadeNothing(h)
            /\ reqs[h].processFileCalls = 0
            /\ reqs[h].groqCalls = 0

\* Chat request h has called the completion client
CalledCompletion(h) == reqs[h].kind = "POST /api/chat" /\ reqs[h].groqCalls = 1

\* The list handed to the completion client by h starts with one system
\* message that holds the whole content of the requested document between
\* the instructions, and goes on with role and content of every message that
\* getMessages returned to h, in that order; the user message of h is among
\* them, and all of them are messages of h's session.
PromptThenHistory(h) ==
    LET list == reqs[h].formattedMessages
        history == reqs[h].payload
        content == The(reqs[h].document).content
    IN  /\ Len(list) = Len(history) + 1
        /\ list[1].role = "system"
        /\ Len(list[1].content) = Len(content) + 2
        /\ SubSeq(list[1].content, 2, Len(content) + 1) = content
        /\ The(reqs[h].document).id = ChatBody(h).documentId.num
        /\ \A i \in 1..Len(history) :
              /\ list[i + 1].role = history[i].role
              /\ list[i + 1].content = history[i].content
              /\ history[i].documentId = The(reqs[h].session).id
        /\ IndexOf(history, The(reqs[h].userMessage).id) > 0
        /\ history[IndexOf(history, The(reqs[h].userMessage).id)].role = "user"

\* This step is h's call of storage.getMessages
CalledGetMessages(h) ==
    /\ reqs[h].pc = "await createMessage(user)"
    /\ reqs'[h].pc = "await getMessages"

C19_AsClaimed ==
    [][ \A id \in DOMAIN sessions' \ DOMAIN sessions :
            sessions'[id].documentId \in DOMAIN documents'
      ]_vars

\* C20: in every state the handlers reach, the documentId field of every
\* stored message is the id of a stored session, and every message a request
\* has created is stored for a session that is stored.
C20_MessagesNameStoredSessions ==
    /\ \A k \in DOMAIN messages : messages[k].documentId \in DOMAIN sessions
    /\ \A h \in Reqs : \A i \in 1..Len(reqs[h].madeMessages) :
          /\ reqs[h].madeMessages[i] \in DOMAIN messages
          /\ messages[reqs[h].madeMessages[i]].documentId \in DOMAIN sessions

\* The upload's greeting is stored for session 1, and a chat without
\* sessionId has stored its question and the answer for the session it made
C20_Witness ==
    /\ \E k \in DOMAIN messages :
          messages[k].role = "system" /\ messages[k].documentId = 1
    /\ \E h \in Reqs :
          /\ DoneChat(h)
          /\ reqs[h].status = 200
          /\ ChatBody(h).sessionId.type = "undefined"
          /\ Len(reqs[h].madeMessages) = 2
          /\ messages[reqs[h].madeMessages[2]].documentId = 2

\* s is a prefix of t
IsPrefixOf(s, t) == Len(s) <= Len(t) /\ SubSeq(t, 1, Len(s)) = s

\* C21: no step removes a stored message or changes one of its fields, and
\* for every session id the result of getMessages before the step is a prefix
\* of its result after the step.
C21_MessagesAppendOnly ==
    [][ /\ \A k \in DOMAIN messages :
              k \in DOMAIN messages' /\ messages'[k] = messages[k]
        /\ \A sessionId \in SessionIds :
              \E stored \in {messages'} :
                  IsPrefixOf(getMessages(sessionId), MessagesOf(stored, sessionId))
      ]_vars

\* Session 1 has messages of two different times, a message with a lower id
\* than its last one belongs to another session, and its document is deleted
C21_Witness ==
    /\ Len(getMessages(1)) >= 2
    /\ getMessages(1)[1].timestamp < getMessages(1)[Len(getMessages(1))].timestamp
    /\ \E k \in DOMAIN messages :
          /\ messages[k].documentId # 1
          /\ k < getMessages(1)[Len(getMessages(1))].id
    /\ 1 \in DOMAIN sessions
    /\ sessions[1].documentId \notin DOMAIN documents

\* The createMessage steps for a session id that names no stored session
CreatedForNoSession ==
    /\ CreatedMessage
    /\ messages'[messageIdCounter].documentId \notin DOMAIN sessions

\* C22: a createMessage whose session-reference field names no stored session
\* takes the next message id, stores the message under it with the fields it
\* was given, keeps every other message, and leaves every stored session as
\* it was.
C22_UnknownSessionStillStoresMessage ==
    [][ CreatedForNoSession =>
            /\ messageIdCounter' = messageIdCounter + 1
            /\ DOMAIN messages' = DOMAIN messages \cup {messageIdCounter}
            /\ messages'[messageIdCounter].id = messageIdCounter
            /\ messages'[messageIdCounter].timestamp = now'
            /\ \A k \in DOMAIN messages : messages'[k] = messages[k]
            /\ sessions' = sessions
      ]_vars

\* A message for session 3 is stored while sessions 1 and 2 exist, and the
\* clock has moved on since the sessions got their lastMessageAt
C22_Witness ==
    /\ DOMAIN sessions = {1, 2}
    /\ \E k \in DOMAIN messages :
          /\ messages[k].documentId = 3
          /\ messages[k].timestamp > sessions[1].lastMessageAt
          /\ messages[k].timestamp > sessions[2].lastMessageAt

\* C23 as claimed: no two stored users have the same username, so a username
\* names at most one stored user.
C23_AsClaimed ==
    \A a \in DOMAIN users : \A b \in DOMAIN users :
        users[a].username = users[b].username => a = b

\* The chat requests with a sessionId that the handler takes as given and
\* that have got past the session lookup (they have stored a message)
ProceededOnSession(h) ==
    /\ reqs[h].kind = "POST /api/chat"
    /\ reqs[h].body # {}
    /\ Truthy(ChatBody(h).sessionId)
    /\ reqs[h].madeMessages # <<>>

\* C24 as claimed: a chat request with a sessionId gets past the session
\* lookup only when the session's documentId is the request's documentId, and
\* the assistant message a request stores goes to a session of the document
\* whose content was in the prompt.
C24_AsClaimed ==
    \A h \in Reqs :
        /\ ProceededOnSession(h) =>
              The(reqs[h].session).documentId = ChatBody(h).documentId.num
        /\ reqs[h].kind = "POST /api/chat" /\ reqs[h].aiMessage # {} =>
              sessions[The(reqs[h].aiMessage).documentId].documentId
                  = The(reqs[h].document).id

\* The user message at position i of a history has its reply right after it
AnsweredIn(history, i) ==
    i < Len(history) /\ history[i + 1].role = "assistant"

\* C25 as claimed: the assistant message of a chat request comes, in the
\* getMessages order of its session, right after the user message of the same
\* request, and the history a request reads for the completion holds no user
\* message of another request that is still without a reply.
C25_AsClaimed ==
    \A h \in Reqs :
        /\ reqs[h].kind = "POST /api/chat" /\ reqs[h].aiMessage # {} =>
              LET history == getMessages(The(reqs[h].session).id)
              IN  IndexOf(history, The(reqs[h].aiMessage).id)
                      = IndexOf(history, The(reqs[h].userMessage).id) + 1
        /\ reqs[h].kind = "POST /api/chat" /\ reqs[h].userMessage # {} =>
              \A i \in 1..Len(reqs[h].payload) :
                  /\ reqs[h].payload[i].role = "user"
                  /\ reqs[h].payload[i].id # The(reqs[h].userMessage).id
                  => AnsweredIn(reqs[h].payload, i)

\* The steps in which request h sends a response that carries its session:
\* 201 of an upload or of POST /api/documents/:id/sessions, 200 of a chat
SendsSession(h) ==
    /\ reqs[h].pc # "done"
    /\ reqs'[h].pc = "done"
    /\ reqs'[h].status \in {200, 201}
    /\ reqs'[h].kind \in {"POST /api/documents/upload",
                          "POST /api/documents/:id/sessions", "POST /api/chat"}

\* C26 as claimed: the session a handler sends in its response is the session
\* as stored at that moment.
C26_AsClaimed ==
    [][ \A h \in Reqs :
            SendsSession(h) =>
                /\ The(reqs'[h].session).id \in DOMAIN sessions'
                /\ The(reqs'[h].session) = sessions'[The(reqs'[h].session).id]
      ]_vars

\* Every stored session was created no later than its lastMessageAt, and no
\* stored message that names it is later than its lastMessageAt
SessionTimesInOrder ==
    \A id \in DOMAIN sessions :
        /\ sessions[id].createdAt <= sessions[id].lastMessageAt
        /\ \A k \in DOMAIN messages :
              messages[k].documentId = id =>
                  messages[k].timestamp <= sessions[id].lastMessageAt

\* The steps that give the stored session id another name
Renamed(id) ==
    /\ id \in DOMAIN sessions
    /\ id \in DOMAIN sessions'
    /\ sessions'[id].name # sessions[id].name

\* C27: with a clock that never goes back, every stored session has
\* createdAt <= lastMessageAt and a lastMessageAt that is not earlier than the
\* timestamp of any stored message naming the session; a step that renames a
\* session changes the name of that session and nothing else in the store.
C27_SessionTimesAndRename ==
    [][ /\ SessionTimesInOrder
        /\ SessionTimesInOrder'
        /\ \A id \in SessionIds :
              Renamed(id) =>
                  /\ sessions' = [sessions EXCEPT ![id].name = sessions'[id].name]
                  /\ UNCHANGED <<users, documents, messages>>
      ]_vars

\* A session that was created at time 0, has a message of time 0 and one of
\* time 1, its lastMessageAt, and was renamed
C27_Witness ==
    /\ 1 \in DOMAIN sessions
    /\ sessions[1].name = <<"renamed">>
    /\ sessions[1].createdAt < sessions[1].lastMessageAt
    /\ \E k \in DOMAIN messages :
          messages[k].documentId = 1 /\ messages[k].timestamp = sessions[1].lastMessageAt
    /\ \E k \in DOMAIN messages :
          messages[k].documentId = 1 /\ messages[k].timestamp = sessions[1].createdAt

\* C28 as claimed: the location a click on a document card navigates to
\* names a stored session whose documentId is the clicked document.
C28_AsClaimed ==
    \A location \in sidebar.location :
        /\ location.sessionId \in DOMAIN sessions
        /\ sessions[location.sessionId].documentId = location.documentId

\* The posts of the chat page that are in flight
InFlight == {i \in 1..Len(chatPage.posts) : ~chatPage.posts[i].settled}

\* C29 as claimed: the chat page has at most one POST /api/chat in flight and
\* has sent no blank message.
C29_AsClaimed ==
    /\ Cardinality(InFlight) <= 1
    /\ \A i \in 1..Len(chatPage.posts) : trim(chatPage.posts[i].message) # <<>>

====
